---- MODULE Spec2Model ----
(***************************************************************************)
(* gtfs2geojson: conversion of the GTFS tables into GeoJSON feature        *)
(* collections (gtfs_routes and gtfs_stops of src/gtfs2geojson.py).        *)
(*                                                                         *)
(* A csv row of stop_times, shapes and trips is a record whose fields are  *)
(* the cells the code reads through header.index(name).  A row of routes   *)
(* and stops, where the code walks every column, is the sequence of its    *)
(* cells next to the header.  A cell is a text.  A time text is kept as    *)
(* the sequence of its ':'-separated fields (what time.split(':') gives).  *)
(* A Python value that may be None is <<>> (None) or <<v>>.  A dict is a   *)
(* function whose DOMAIN is the set of its keys.                           *)
(***************************************************************************)
EXTENDS Integers, Sequences, FiniteSets, TLC

VARIABLES
    stop_times_f,   \* rows of stop_times.txt
    shapes_f,       \* rows of shapes.txt
    shapes_has_dist,\* 'shape_dist_traveled' in header of shapes.txt
    trips_f,        \* rows of trips.txt
    routes_f,       \* rows of routes.txt (cells in RoutesHeader order)
    stops_header,   \* header of stops.txt
    stops_f,        \* rows of stops.txt (cells in stops_header order)
    pc,             \* the loop the program is in, "done" or "crashed"
    i,              \* rows of the current table consumed so far
    err,            \* the unhandled exception, "" while there is none
    trip_times, shapes, shape_lengths, trips_ref, route_time, trips,
    features,       \* output_layer.features
    warnings        \* rows printed by "Warning: route has no trips"

inputs == <<stop_times_f, shapes_f, shapes_has_dist, trips_f, routes_f,
            stops_header, stops_f>>
vars == <<stop_times_f, shapes_f, shapes_has_dist, trips_f, routes_f,
          stops_header, stops_f, pc, i, err, trip_times, shapes,
          shape_lengths, trips_ref, route_time, trips, features, warnings>>

-----------------------------------------------------------------------------
(* Python values *)

None == <<>>
Some(v) == <<v>>
Val(o) == o[1]

EmptyDict == <<>>

Put(d, k, v) == [x \in (DOMAIN d) \cup {k} |-> IF x = k THEN v ELSE d[x]]

(* int(text): the texts of the model that int() accepts, with their value. *)
IntTable ==
    ("0" :> 0) @@ ("00" :> 0) @@ ("1" :> 1) @@ ("01" :> 1) @@ ("2" :> 2) @@
    ("02" :> 2) @@ ("3" :> 3) @@ ("10" :> 10) @@ ("25" :> 25)

IsIntText(x) == x \in DOMAIN IntTable

int(x) == IntTable[x]

(* Decimal(text): the texts of the model that Decimal() accepts. *)
DecimalTable ==
    ("0" :> 0) @@ ("1" :> 1) @@ ("2" :> 2) @@ ("9" :> 9) @@ ("10" :> 10) @@
    ("10.0" :> 10) @@ ("20.0" :> 20)

IsDecimalText(x) == x \in DOMAIN DecimalTable

Decimal(x) == DecimalTable[x]

(* header.index(name): the first column carrying the name. *)
index(header, name) ==
    CHOOSE k \in 1..Len(header) :
        /\ header[k] = name
        /\ \A j \in 1..(k - 1) : header[j] # name

(* A slip of line 152: the keys in descending order. *)
RECURSIVE sort_reversed(_)
sort_reversed(S) ==
    IF S = {} THEN <<>>
    ELSE LET m == CHOOSE x \in S : \A y \in S : x >= y
         IN <<m>> \o sort_reversed(S \ {m})

(* list.sort() of a set of integer keys. *)
RECURSIVE sort(_)
sort(S) ==
    IF S = {} THEN <<>>
    ELSE LET m == CHOOSE x \in S : \A y \in S : x <= y
         IN <<m>> \o sort(S \ {m})

(* The orders in which a dict of keys S can be iterated. *)
Orders(S) == {o \in [1..Cardinality(S) -> S] : \A x \in S : \E k \in DOMAIN o : o[k] = x}

-----------------------------------------------------------------------------
(* time_as_timedelta: a timedelta is its total number of seconds. *)

time_as_timedelta(time) ==
    IF Len(time) # 3 \/ \E k \in 1..Len(time) : ~IsIntText(time[k])
    THEN None
    ELSE Some(3600 * int(time[1]) + 60 * int(time[2]) + int(time[3]))

-----------------------------------------------------------------------------
(* gtfs_routes, the stop_times loop *)

NewWindow == <<None, None, None, None>>

(* A slip of line 111: >= for >, so that a later row carrying the smallest
   sequence number replaces the departure time. *)
UpdateEarliestLastWins(w, seq, deptime) ==
    IF w[1] = None \/ Val(w[1]) >= seq
    THEN [w EXCEPT ![1] = Some(seq), ![3] = deptime]
    ELSE w

(* Lines 110-113: an earlier item in the sequence.  w[1], w[3] are the code's
   trip_times[..][0], [2]. *)
UpdateEarliest(w, seq, deptime) ==
    IF w[1] = None \/ Val(w[1]) > seq
    THEN [w EXCEPT ![1] = Some(seq), ![3] = deptime]
    ELSE w

(* Lines 115-118: a later item in the sequence. *)
UpdateLatest(w, seq, arrtime) ==
    IF w[2] = None \/ Val(w[2]) < seq
    THEN [w EXCEPT ![2] = Some(seq), ![4] = arrtime]
    ELSE w

StopTimesRow ==
    /\ pc = "stop_times"
    /\ i < Len(stop_times_f)
    /\ LET row == stop_times_f[i + 1]
           tt == IF row.trip_id \in DOMAIN trip_times
                 THEN trip_times
                 ELSE Put(trip_times, row.trip_id, NewWindow)
           arrtime == time_as_timedelta(row.arrival_time)
           deptime == time_as_timedelta(row.departure_time)
       IN IF arrtime = None \/ deptime = None
          THEN /\ trip_times' = tt
               /\ i' = i + 1
               /\ UNCHANGED <<pc, err>>
          ELSE IF ~IsIntText(row.stop_sequence)
          THEN /\ trip_times' = tt
               /\ pc' = "crashed"
               /\ err' = "ValueError: stop_sequence"
               /\ UNCHANGED i
          ELSE /\ trip_times' =
                    [tt EXCEPT ![row.trip_id] =
                        UpdateLatest(
                            UpdateEarliest(@, int(row.stop_sequence), deptime),
                            int(row.stop_sequence), arrtime)]
               /\ i' = i + 1
               /\ UNCHANGED <<pc, err>>
    /\ UNCHANGED <<inputs, shapes, shape_lengths, trips_ref, route_time,
                   trips, features, warnings>>

OpenShapes ==
    /\ pc = "stop_times"
    /\ i = Len(stop_times_f)
    /\ pc' = "shapes"
    /\ i' = 0
    /\ shapes' = EmptyDict
    /\ shape_lengths' = EmptyDict
    /\ UNCHANGED <<inputs, err, trip_times, trips_ref, route_time, trips,
                   features, warnings>>

-----------------------------------------------------------------------------
(* gtfs_routes, the shapes loop *)

(* Line 140: the point of a shapes row, (lng, lat). *)
ShapePoint(row) == <<Decimal(row.shape_pt_lon), Decimal(row.shape_pt_lat)>>

(* A slip of line 140: a sequence number already present keeps its point. *)
AddShapePointFirstWins(sh, row) ==
    LET id == row.shape_id
        s0 == IF id \in DOMAIN sh THEN sh ELSE Put(sh, id, EmptyDict)
    IN IF int(row.shape_pt_sequence) \in DOMAIN s0[id] THEN s0
       ELSE [s0 EXCEPT ![id] = Put(@, int(row.shape_pt_sequence), ShapePoint(row))]

(* Lines 137-140. *)
AddShapePoint(sh, row) ==
    LET id == row.shape_id
        s0 == IF id \in DOMAIN sh THEN sh ELSE Put(sh, id, EmptyDict)
    IN [s0 EXCEPT ![id] = Put(@, int(row.shape_pt_sequence), ShapePoint(row))]

(* Lines 144-147. *)
AddShapeLength(sl, has_dist, row) ==
    IF has_dist /\ row.shape_dist_traveled # ""
    THEN LET length == Decimal(row.shape_dist_traveled)
         IN IF row.shape_id \notin DOMAIN sl \/ sl[row.shape_id] < length
            THEN Put(sl, row.shape_id, length)
            ELSE sl
    ELSE sl

ShapesRow ==
    /\ pc = "shapes"
    /\ i < Len(shapes_f)
    /\ LET row == shapes_f[i + 1]
       IN IF \/ ~IsIntText(row.shape_pt_sequence)
             \/ ~IsDecimalText(row.shape_pt_lon)
             \/ ~IsDecimalText(row.shape_pt_lat)
          THEN /\ shapes' = IF row.shape_id \in DOMAIN shapes
                            THEN shapes
                            ELSE Put(shapes, row.shape_id, EmptyDict)
               /\ pc' = "crashed"
               /\ err' = "ValueError: shapes"
               /\ UNCHANGED <<i, shape_lengths>>
          ELSE IF /\ shapes_has_dist
                  /\ row.shape_dist_traveled # ""
                  /\ ~IsDecimalText(row.shape_dist_traveled)
          THEN /\ shapes' = AddShapePoint(shapes, row)
               /\ pc' = "crashed"
               /\ err' = "InvalidOperation: shape_dist_traveled"
               /\ UNCHANGED <<i, shape_lengths>>
          ELSE /\ shapes' = AddShapePoint(shapes, row)
               /\ shape_lengths' = AddShapeLength(shape_lengths, shapes_has_dist, row)
               /\ i' = i + 1
               /\ UNCHANGED <<pc, err>>
    /\ UNCHANGED <<inputs, trip_times, trips_ref, route_time, trips,
                   features, warnings>>

(* Lines 151-157: the points of one shape as a list, by ascending key. *)
LineString(points) ==
    LET shape_keys == sort(DOMAIN points)
    IN [k \in 1..Len(shape_keys) |-> points[shape_keys[k]]]

(* Lines 134-157 as a whole: the LineStrings built from the shapes rows, from
   row k on, sh being the dict built from the rows before. *)
RECURSIVE BuildShapes(_, _, _)
BuildShapes(rows, k, sh) ==
    IF k > Len(rows) THEN [shape_id \in DOMAIN sh |-> LineString(sh[shape_id])]
    ELSE BuildShapes(rows, k + 1, AddShapePoint(sh, rows[k]))

TranslateShapes ==
    /\ pc = "shapes"
    /\ i = Len(shapes_f)
    /\ shapes' = [shape_id \in DOMAIN shapes |-> LineString(shapes[shape_id])]
    /\ pc' = "trips"
    /\ i' = 0
    /\ trips' = EmptyDict
    /\ trips_ref' = EmptyDict
    /\ route_time' = EmptyDict
    /\ UNCHANGED <<inputs, err, trip_times, shape_lengths, features, warnings>>

-----------------------------------------------------------------------------
(* gtfs_routes, the trips loop and the choice of each route's shape *)

(* A slip of line 184: the counter is created and never incremented. *)
CountShapeNoIncrement(cands, shape_id) ==
    IF shape_id \in DOMAIN cands THEN cands ELSE Put(cands, shape_id, 0)

(* Lines 179-184: reference count the shape of a trips row. *)
CountShape(cands, shape_id) ==
    LET c0 == IF shape_id \in DOMAIN cands THEN cands ELSE Put(cands, shape_id, 0)
    IN [c0 EXCEPT ![shape_id] = @ + 1]

(* A slip of lines 174-177: the window is set by every trips row whose trip
   has stop times, so that the last trip of the route decides. *)
RouteTimeLastTrip(rt, known, route_id, tt, trip_id) ==
    IF trip_id \in DOMAIN tt THEN Put(rt, route_id, tt[trip_id]) ELSE rt

(* Lines 174-177: the time window of a route is that of the trip of the first
   trips row carrying the route. *)
RouteTime(rt, known, route_id, tt, trip_id) ==
    IF known THEN rt ELSE Put(rt, route_id, tt[trip_id])

TripsRow ==
    /\ pc = "trips"
    /\ i < Len(trips_f)
    /\ LET row == trips_f[i + 1]
           known == row.route_id \in DOMAIN trips_ref
           tr == IF known THEN trips_ref ELSE Put(trips_ref, row.route_id, EmptyDict)
       IN IF ~known /\ row.trip_id \notin DOMAIN trip_times
          THEN /\ trips_ref' = tr
               /\ pc' = "crashed"
               /\ err' = "KeyError: trip_times"
               /\ UNCHANGED <<i, route_time>>
          ELSE /\ route_time' = RouteTime(route_time, known, row.route_id,
                                           trip_times, row.trip_id)
               /\ trips_ref' = [tr EXCEPT ![row.route_id] = CountShape(@, row.shape_id)]
               /\ i' = i + 1
               /\ UNCHANGED <<pc, err>>
    /\ UNCHANGED <<inputs, trip_times, shapes, shape_lengths, trips,
                   features, warnings>>

(* Lines 189-192 over the candidate shapes in iteration order ord, from its
   k-th key on; best is <<popular_shape, popular_shape_refs>>. *)
RECURSIVE PopularFrom(_, _, _, _)
PopularFrom(cands, ord, k, best) ==
    IF k > Len(ord) THEN best
    ELSE PopularFrom(cands, ord, k + 1,
                     IF cands[ord[k]] > best[2]
                     THEN <<Some(ord[k]), cands[ord[k]]>>
                     ELSE best)

(* A slip of lines 190-192: the last candidate iterated is kept, whatever
   its count. *)
PopularShapeLastSeen(cands, ord) ==
    IF Len(ord) = 0 THEN None ELSE Some(ord[Len(ord)])

PopularShape(cands, ord) == PopularFrom(cands, ord, 1, <<None, 0>>)[1]

(* Lines 186-199.  The iteration order of a dict is not fixed by the
   language: every order of the candidate shapes is possible. *)
SelectShapes ==
    /\ pc = "trips"
    /\ i = Len(trips_f)
    /\ \E ords \in [DOMAIN trips_ref -> UNION {Orders(DOMAIN trips_ref[r]) : r \in DOMAIN trips_ref}] :
        /\ \A r \in DOMAIN trips_ref : ords[r] \in Orders(DOMAIN trips_ref[r])
        /\ LET popular == [r \in DOMAIN trips_ref |-> PopularShape(trips_ref[r], ords[r])]
           IN IF \E r \in DOMAIN trips_ref : popular[r] = None
              THEN /\ pc' = "crashed"
                   /\ err' = "AssertionError: Couldn't find a shape for route"
                   /\ UNCHANGED <<i, trips, trip_times>>
              ELSE /\ trips' = [r \in DOMAIN trips_ref |-> Val(popular[r])]
                   /\ trip_times' = EmptyDict
                   /\ pc' = "routes"
                   /\ i' = 0
                   /\ err' = err
    /\ UNCHANGED <<inputs, shapes, shape_lengths, trips_ref, route_time,
                   features, warnings>>

-----------------------------------------------------------------------------
(* gtfs_routes, the routes loop *)

RoutesHeader == <<"route_id", "route_short_name">>

(* Lines 216-219 / 51-57: the non-empty cells of a row by column name, from
   column k on, the columns named in skip left out. *)
RECURSIVE RowProps(_, _, _, _, _)
RowProps(header, row, skip, k, props) ==
    IF k > Len(header) THEN props
    ELSE RowProps(header, row, skip, k + 1,
                  IF header[k] \in skip THEN props
                  ELSE IF row[k] # "" THEN Put(props, header[k], row[k])
                  ELSE props)

(* Line 230. *)
DurationSec(window) == Val(window[4]) - Val(window[3])

(* Lines 226-238: the feature of a routes row whose route has a shape. *)
RouteFeature(row, route_id) ==
    LET p0 == RowProps(RoutesHeader, row, {}, 1, EmptyDict)
        p1 == Put(p0, "shape_id", trips[route_id])
        p2 == Put(p1, "shape_refs", trips_ref[route_id][trips[route_id]])
        p3 == IF shapes_has_dist /\ Cardinality(DOMAIN shape_lengths) > 0
              THEN Put(p2, "shape_length", shape_lengths[trips[route_id]])
              ELSE p2
        p4 == Put(p3, "duration_sec", DurationSec(route_time[route_id]))
    IN [geometry |-> shapes[trips[route_id]], properties |-> p4, id |-> route_id]

(* A slip of line 232: the feature is put in front of the list. *)
prepend(list, feature) == <<feature>> \o list

(* Lines 59 and 232: output_layer.features.append(feature). *)
append(list, feature) == Append(list, feature)

RoutesRow ==
    /\ pc = "routes"
    /\ i < Len(routes_f)
    /\ LET row == routes_f[i + 1]
           route_id == row[index(RoutesHeader, "route_id")]
       IN IF route_id \notin DOMAIN trips
          THEN /\ warnings' = Append(warnings, row)
               /\ i' = i + 1
               /\ UNCHANGED <<pc, err, features>>
          ELSE IF /\ shapes_has_dist
                  /\ Cardinality(DOMAIN shape_lengths) > 0
                  /\ trips[route_id] \notin DOMAIN shape_lengths
          THEN /\ pc' = "crashed"
               /\ err' = "KeyError: shape_lengths"
               /\ UNCHANGED <<i, features, warnings>>
          ELSE IF route_time[route_id][4] = None \/ route_time[route_id][3] = None
          THEN /\ pc' = "crashed"
               /\ err' = "TypeError: NoneType - NoneType"
               /\ UNCHANGED <<i, features, warnings>>
          ELSE IF trips[route_id] \notin DOMAIN shapes
          THEN /\ pc' = "crashed"
               /\ err' = "KeyError: shapes"
               /\ UNCHANGED <<i, features, warnings>>
          ELSE /\ features' = append(features, RouteFeature(row, route_id))
               /\ i' = i + 1
               /\ UNCHANGED <<pc, err, warnings>>
    /\ UNCHANGED <<inputs, trip_times, shapes, shape_lengths, trips_ref,
                   route_time, trips>>

DumpRoutes ==
    /\ pc = "routes"
    /\ i = Len(routes_f)
    /\ pc' = "done"
    /\ UNCHANGED <<inputs, i, err, trip_times, shapes, shape_lengths,
                   trips_ref, route_time, trips, features, warnings>>

-----------------------------------------------------------------------------
(* gtfs_stops *)

(* A slip of line 61: the coordinates as (lat, lng). *)
StopFeatureLatLng(header, row) ==
    [geometry |-> <<Decimal(row[index(header, "stop_lat")]),
                    Decimal(row[index(header, "stop_lon")])>>,
     properties |-> RowProps(header, row, {"stop_lat", "stop_lon"}, 1, EmptyDict),
     id |-> row[index(header, "stop_id")]]

(* Lines 48-65: the feature of a stops row. *)
StopFeature(header, row) ==
    [geometry |-> <<Decimal(row[index(header, "stop_lon")]),
                    Decimal(row[index(header, "stop_lat")])>>,
     properties |-> RowProps(header, row, {"stop_lat", "stop_lon"}, 1, EmptyDict),
     id |-> row[index(header, "stop_id")]]

StopsRow ==
    /\ pc = "stops"
    /\ i < Len(stops_f)
    /\ LET row == stops_f[i + 1]
       IN IF \/ ~IsDecimalText(row[index(stops_header, "stop_lat")])
             \/ ~IsDecimalText(row[index(stops_header, "stop_lon")])
          THEN /\ pc' = "crashed"
               /\ err' = "InvalidOperation: stops"
               /\ UNCHANGED <<i, features>>
          ELSE /\ features' = append(features, StopFeature(stops_header, row))
               /\ i' = i + 1
               /\ UNCHANGED <<pc, err>>
    /\ UNCHANGED <<inputs, trip_times, shapes, shape_lengths, trips_ref,
                   route_time, trips, warnings>>

DumpStops ==
    /\ pc = "stops"
    /\ i = Len(stops_f)
    /\ pc' = "done"
    /\ UNCHANGED <<inputs, i, err, trip_times, shapes, shape_lengths,
                   trips_ref, route_time, trips, features, warnings>>

-----------------------------------------------------------------------------
(* The input tables the model is run on. *)

MaxStopTimes == 3
MaxShapeRows == 3
MaxTrips == 3
MaxRoutes == 3
MaxStops == 2

SeqsUpTo(D, n) == UNION {[1..k -> D] : k \in 0..n}

t10 == <<"0", "00", "10">>
t60 == <<"0", "01", "00">>
t25h == <<"25", "00", "00">>
tShort == <<"0", "10">>
tBad == <<"0", "x", "00">>

StopTime(t, arr, dep, seq) ==
    [trip_id |-> t, arrival_time |-> arr, departure_time |-> dep, stop_sequence |-> seq]

ShapeRow(id, lat, lon, seq, dist) ==
    [shape_id |-> id, shape_pt_lat |-> lat, shape_pt_lon |-> lon,
     shape_pt_sequence |-> seq, shape_dist_traveled |-> dist]

Trip(r, s, t) == [route_id |-> r, shape_id |-> s, trip_id |-> t]

StopTimeRows ==
    {StopTime(t, p[1], p[2], seq) :
        t \in {"T1", "T2"}, p \in {<<t60, t10>>, <<t25h, t60>>}, seq \in {"1", "02"}}
    \cup {StopTime(t, tShort, t10, "02") : t \in {"T1", "T2"}}
    \cup {StopTime(t, t60, tBad, "1") : t \in {"T1", "T2"}}

ShapeRows ==
    {ShapeRow(id, pt[1], pt[2], seq, "") :
        id \in {"A", "B"}, pt \in {<<"1", "2">>, <<"0", "9">>}, seq \in {"1", "01", "2"}}

ShapeDistRows ==
    {ShapeRow(id, "1", "2", seq, dist) :
        id \in {"A", "B"}, seq \in {"1", "2"}, dist \in {"", "9", "10"}}

TripRows == {Trip(r, s, t) : r \in {"R1", "R2"}, s \in {"A", "B"}, t \in {"T1", "T2"}}

RouteRows == {<<r, n>> : r \in {"R1", "R2", "R3"}, n \in {"", "N"}}

StopsHeaders ==
    {<<"stop_id", "stop_name", "stop_lat", "stop_lon">>,
     <<"stop_lon", "stop_lat", "zone_id", "stop_id">>}

\* The cells of a stops row under a header, from the cell of each column.
StopRow(header, id, lat, lon, other) ==
    [k \in 1..Len(header) |->
        CASE header[k] = "stop_id" -> id
          [] header[k] = "stop_lat" -> lat
          [] header[k] = "stop_lon" -> lon
          [] OTHER -> other]

StopRows(header) ==
    {StopRow(header, id, lat, lon, other) :
        id \in {"S1", ""}, lat \in {"10.0", "20.0", ""}, lon \in {"10.0", "20.0"},
        other \in {"Alpha", ""}}

SomeStopTimes ==
    <<StopTime("T1", t10, t10, "1"), StopTime("T2", t60, t10, "1"),
      StopTime("T1", t60, t60, "2"), StopTime("T2", t25h, t25h, "3")>>

SomeShapes ==
    <<ShapeRow("A", "1", "2", "2", "9"), ShapeRow("B", "0", "9", "1", "10"),
      ShapeRow("A", "0", "0", "1", "")>>

SomeTrips == {<<Trip("R1", "A", "T1"), Trip("R2", "B", "T2"), Trip("R1", "B", "T2")>>,
              <<Trip("R1", "A", "T1"), Trip("R1", "A", "T2")>>}

SomeRoutes == <<<<"R1", "N">>, <<"R3", "">>, <<"R2", "">>>>

InitRoutesRun ==
    /\ stops_header = <<>>
    /\ stops_f = <<>>
    /\ pc = "stop_times"
    /\ i = 0
    /\ err = ""
    /\ trip_times = EmptyDict
    /\ shapes = EmptyDict
    /\ shape_lengths = EmptyDict
    /\ trips_ref = EmptyDict
    /\ route_time = EmptyDict
    /\ trips = EmptyDict
    /\ features = <<>>
    /\ warnings = <<>>

InitTimes ==
    /\ stop_times_f \in SeqsUpTo(StopTimeRows, MaxStopTimes)
    /\ shapes_f = SomeShapes
    /\ shapes_has_dist = FALSE
    /\ trips_f \in SomeTrips
    /\ routes_f = SomeRoutes
    /\ InitRoutesRun

InitShapes ==
    /\ stop_times_f = SomeStopTimes
    /\ shapes_f \in SeqsUpTo(ShapeRows, MaxShapeRows)
    /\ shapes_has_dist = FALSE
    /\ trips_f \in SomeTrips
    /\ routes_f = SomeRoutes
    /\ InitRoutesRun

InitLengths ==
    /\ stop_times_f = SomeStopTimes
    /\ shapes_has_dist \in BOOLEAN
    /\ shapes_f \in SeqsUpTo(ShapeDistRows, MaxShapeRows)
    /\ shapes_has_dist = FALSE =>
            \A k \in 1..Len(shapes_f) : shapes_f[k].shape_dist_traveled = ""
    /\ trips_f \in SomeTrips
    /\ routes_f = SomeRoutes
    /\ InitRoutesRun

InitTrips ==
    /\ stop_times_f \in {SomeStopTimes, SubSeq(SomeStopTimes, 1, 1)}
    /\ shapes_f = SomeShapes
    /\ shapes_has_dist = TRUE
    /\ trips_f \in SeqsUpTo(TripRows, MaxTrips)
    /\ routes_f = SomeRoutes
    /\ InitRoutesRun

InitRoutes ==
    /\ stop_times_f = SomeStopTimes
    /\ shapes_f = SomeShapes
    /\ shapes_has_dist = TRUE
    /\ trips_f \in SomeTrips \cup {<<>>}
    /\ routes_f \in SeqsUpTo(RouteRows, MaxRoutes)
    /\ InitRoutesRun

InitStops ==
    /\ stop_times_f = <<>>
    /\ shapes_f = <<>>
    /\ shapes_has_dist = FALSE
    /\ trips_f = <<>>
    /\ routes_f = <<>>
    /\ stops_header \in StopsHeaders
    /\ stops_f \in SeqsUpTo(StopRows(stops_header), MaxStops)
    /\ pc = "stops"
    /\ i = 0
    /\ err = ""
    /\ trip_times = EmptyDict
    /\ shapes = EmptyDict
    /\ shape_lengths = EmptyDict
    /\ trips_ref = EmptyDict
    /\ route_time = EmptyDict
    /\ trips = EmptyDict
    /\ features = <<>>
    /\ warnings = <<>>

Init == InitTimes \/ InitShapes \/ InitLengths \/ InitTrips \/ InitRoutes \/ InitStops

NextRoutes ==
    \/ StopTimesRow
    \/ OpenShapes
    \/ ShapesRow
    \/ TranslateShapes
    \/ TripsRow
    \/ SelectShapes
    \/ RoutesRow
    \/ DumpRoutes

NextStops ==
    \/ StopsRow
    \/ DumpStops

Next == NextRoutes \/ NextStops

Spec == Init /\ [][Next]_vars
SpecTimes == InitTimes /\ [][NextRoutes]_vars
SpecShapes == InitShapes /\ [][NextRoutes]_vars
SpecLengths == InitLengths /\ [][NextRoutes]_vars
SpecTrips == InitTrips /\ [][NextRoutes]_vars
SpecRoutes == InitRoutes /\ [][NextRoutes]_vars
SpecStops == InitStops /\ [][NextStops]_vars

-----------------------------------------------------------------------------
(* What the claims speak of, stated on the input tables alone. *)

\* A time text of the form h:m:s with integer h, m, s, and its seconds.
WellFormedTime(time) == Len(time) = 3 /\ \A k \in 1..3 : time[k] \in DOMAIN IntTable
Seconds(time) == 3600 * IntTable[time[1]] + 60 * IntTable[time[2]] + IntTable[time[3]]

Min(S) == CHOOSE x \in S : \A y \in S : x <= y
Max(S) == CHOOSE x \in S : \A y \in S : x >= y

\* The first n stop_times rows of trip t whose two times are well formed.
UsableRows(t, n) ==
    {k \in 1..n : /\ stop_times_f[k].trip_id = t
                  /\ WellFormedTime(stop_times_f[k].arrival_time)
                  /\ WellFormedTime(stop_times_f[k].departure_time)}

StopSeq(k) == IntTable[stop_times_f[k].stop_sequence]

\* The time window the first n stop_times rows give trip t.
WindowOf(t, n) ==
    LET U == UsableRows(t, n)
    IN IF U = {} THEN <<None, None, None, None>>
       ELSE LET lo == Min({StopSeq(k) : k \in U})
                hi == Max({StopSeq(k) : k \in U})
                kLo == Min({k \in U : StopSeq(k) = lo})
                kHi == Min({k \in U : StopSeq(k) = hi})
            IN <<Some(lo), Some(hi),
                 Some(Seconds(stop_times_f[kLo].departure_time)),
                 Some(Seconds(stop_times_f[kHi].arrival_time))>>

\* The stop_times rows consumed so far, while trip_times is alive.
StopTimesConsumed == IF pc = "stop_times" THEN i ELSE Len(stop_times_f)

\* The trip of the first trips row carrying route r.
FirstTripOf(r) ==
    trips_f[Min({k \in 1..Len(trips_f) : trips_f[k].route_id = r})].trip_id

\* The routes some trips row carries.
RoutesWithTrips == {trips_f[k].route_id : k \in 1..Len(trips_f)}

(* C5: after any prefix of the stop_times rows, trip_times holds exactly the
   trips of the consumed rows, and the window of each depends only on its rows
   with two well-formed times: the smallest and the largest stop_sequence of
   those rows, the departure time of the first row carrying the smallest and
   the arrival time of the first row carrying the largest; a trip with no such
   row keeps four None.  A malformed row is consumed like any other. *)
C5_TimeWindow ==
    pc \in {"stop_times", "shapes", "trips"} =>
        /\ DOMAIN trip_times = {stop_times_f[k].trip_id : k \in 1..StopTimesConsumed}
        /\ \A t \in DOMAIN trip_times : trip_times[t] = WindowOf(t, StopTimesConsumed)

\* Three rows of one trip consumed: a malformed one, then two well-formed rows
\* carrying the same sequence number and different departure times.
C5_Witness ==
    /\ pc = "stop_times"
    /\ i = 3
    /\ \A k \in 1..3 : stop_times_f[k].trip_id = "T1"
    /\ ~WellFormedTime(stop_times_f[1].departure_time)
    /\ UsableRows("T1", 3) = {2, 3}
    /\ StopSeq(2) = StopSeq(3)
    /\ stop_times_f[2].departure_time # stop_times_f[3].departure_time

(* C3: the duration_sec of every emitted route feature is the arrival time at
   the largest stop_sequence minus the departure time at the smallest
   stop_sequence of the trip of the first trips row carrying the route, in
   seconds: a value fixed by the stop_times rows of that trip alone, whatever
   the rows of other trips and the later trips rows of the route. *)
C3_DurationOfFirstTrip ==
    \A j \in 1..Len(features) :
        LET w == WindowOf(FirstTripOf(features[j].id), Len(stop_times_f))
        IN /\ w[3] # None
           /\ w[4] # None
           /\ features[j].properties["duration_sec"] = w[4][1] - w[3][1]

\* A feature is emitted for a route with two trips whose windows differ.
C3_Witness ==
    /\ Len(features) > 0
    /\ Len(trips_f) = 2
    /\ trips_f[1].route_id = features[1].id
    /\ trips_f[2].route_id = features[1].id
    /\ trips_f[1].trip_id # trips_f[2].trip_id
    /\ LET w1 == WindowOf(trips_f[1].trip_id, Len(stop_times_f))
           w2 == WindowOf(trips_f[2].trip_id, Len(stop_times_f))
       IN /\ w2[3] # None
          /\ w1[4][1] - w1[3][1] # w2[4][1] - w2[3][1]

(* C4: when the first trip of a route has no usable time window (no
   stop_times row, or only rows with a malformed time), the run does not end
   in an unhandled exception on that account. *)
C4_UnusableWindowReported ==
    (\E r \in RoutesWithTrips : UsableRows(FirstTripOf(r), Len(stop_times_f)) = {})
        => ~(pc = "crashed" /\ err \in {"KeyError: trip_times",
                                        "TypeError: NoneType - NoneType"})

-----------------------------------------------------------------------------
\* The LineStrings have just been built from the whole shapes table.
ShapesBuilt == pc = "trips" /\ i = 0

ShapeSeq(k) == IntTable[shapes_f[k].shape_pt_sequence]

\* The shapes rows of a shape, and the distinct sequence numbers they carry.
RowsOfShape(id) == {k \in 1..Len(shapes_f) : shapes_f[k].shape_id = id}
SeqsOfShape(id) == {ShapeSeq(k) : k \in RowsOfShape(id)}

\* The n-th smallest element of a set of integers.
RECURSIVE Nth(_, _)
Nth(S, n) == IF n = 1 THEN Min(S) ELSE Nth(S \ {Min(S)}, n - 1)

\* The (longitude, latitude) a shapes row states.
PointOfRow(k) ==
    <<DecimalTable[shapes_f[k].shape_pt_lon], DecimalTable[shapes_f[k].shape_pt_lat]>>

\* The coordinate list of every shape is in ascending sequence-number order:
\* one point per distinct sequence number, the j-th taken from a row carrying
\* the j-th smallest.
ShapesAscending ==
    /\ DOMAIN shapes = {shapes_f[k].shape_id : k \in 1..Len(shapes_f)}
    /\ \A id \in DOMAIN shapes :
        /\ Len(shapes[id]) = Cardinality(SeqsOfShape(id))
        /\ \A j \in 1..Len(shapes[id]) :
            \E k \in RowsOfShape(id) :
                /\ ShapeSeq(k) = Nth(SeqsOfShape(id), j)
                /\ shapes[id][j] = PointOfRow(k)

RowOrders(n) ==
    {p \in [1..n -> 1..n] : \A a, b \in 1..n : p[a] = p[b] => a = b}

\* Rows k of the shapes table taken in the order p.
Permuted(p) == [k \in 1..Len(shapes_f) |-> shapes_f[p[k]]]

\* p keeps the relative order of the rows that carry the same shape_id and
\* the same sequence number.
KeepsDuplicateOrder(p) ==
    \A a, b \in 1..Len(shapes_f) :
        (/\ a < b
         /\ shapes_f[p[a]].shape_id = shapes_f[p[b]].shape_id
         /\ ShapeSeq(p[a]) = ShapeSeq(p[b])) => p[a] < p[b]

(* C1 as stated: the coordinate list of every shape is in ascending
   shape_pt_sequence order and is the same for every permutation of the
   shapes rows. *)
C1_AnyPermutation ==
    ShapesBuilt =>
        /\ ShapesAscending
        /\ \A p \in RowOrders(Len(shapes_f)) :
            BuildShapes(Permuted(p), 1, EmptyDict) = shapes

(* C1 as amended: the coordinate list of every shape is in ascending
   shape_pt_sequence order and is the same for every permutation of the
   shapes rows that keeps the relative order of the rows sharing a shape_id
   and a sequence number (every permutation, when no two rows do). *)
C1_PermutationKeepingDuplicates ==
    ShapesBuilt =>
        /\ ShapesAscending
        /\ \A p \in RowOrders(Len(shapes_f)) :
            KeepsDuplicateOrder(p) => BuildShapes(Permuted(p), 1, EmptyDict) = shapes

\* Three rows of one shape given in descending sequence order, with distinct
\* points: every permutation of them builds the list in place.
C1_Witness ==
    /\ ShapesBuilt
    /\ Len(shapes_f) = 3
    /\ \A k \in 1..3 : shapes_f[k].shape_id = "A"
    /\ ShapeSeq(1) > ShapeSeq(2)
    /\ PointOfRow(1) # PointOfRow(2)
    /\ Len(shapes["A"]) = 2

(* C9: when several shapes rows of a shape carry the same sequence number, the
   coordinate list of the shape holds one point per distinct sequence number,
   and the point kept for a sequence number is that of the last row, in input
   order, carrying it. *)
C9_LastRowWins ==
    ShapesBuilt =>
        \A id \in DOMAIN shapes :
            /\ Len(shapes[id]) = Cardinality(SeqsOfShape(id))
            /\ \A j \in 1..Len(shapes[id]) :
                shapes[id][j] =
                    PointOfRow(Max({k \in RowsOfShape(id) :
                                      ShapeSeq(k) = Nth(SeqsOfShape(id), j)}))

\* Two rows of a shape carry the same sequence number (as "1" and "01") and
\* different points, and the list built holds the second.
C9_Witness ==
    /\ ShapesBuilt
    /\ Len(shapes_f) >= 2
    /\ shapes_f[1].shape_id = shapes_f[2].shape_id
    /\ shapes_f[1].shape_pt_sequence # shapes_f[2].shape_pt_sequence
    /\ ShapeSeq(1) = ShapeSeq(2)
    /\ PointOfRow(1) # PointOfRow(2)
    /\ RowsOfShape(shapes_f[1].shape_id) = {1, 2}
    /\ shapes[shapes_f[1].shape_id] = <<PointOfRow(2)>>

\* The shape_dist_traveled values the rows of a shape state.
DistsOfShape(id) ==
    {DecimalTable[shapes_f[k].shape_dist_traveled] :
        k \in {r \in RowsOfShape(id) : shapes_f[r].shape_dist_traveled # ""}}

(* C7: the shape_length of every emitted route feature is the largest
   shape_dist_traveled of the rows of the selected shape; the property is
   left out, and the run does not fail, when the column is missing from the
   header or empty on every row of the selected shape. *)
C7_ShapeLength ==
    /\ ~(/\ pc = "crashed"
         /\ err = "KeyError: shape_lengths"
         /\ RowsOfShape(trips[routes_f[i + 1][1]]) # {})
    /\ \A j \in 1..Len(features) :
        LET props == features[j].properties
            dists == DistsOfShape(props["shape_id"])
        IN IF shapes_has_dist /\ dists # {}
           THEN /\ "shape_length" \in DOMAIN props
                /\ props["shape_length"] = Max(dists)
           ELSE "shape_length" \notin DOMAIN props

-----------------------------------------------------------------------------
\* The trips rows carrying route r and shape s.
TripsOn(r, s) ==
    {k \in 1..Len(trips_f) : trips_f[k].route_id = r /\ trips_f[k].shape_id = s}

(* C2: the shape_refs of every emitted route feature is the number of trips
   rows carrying the feature's route and its shape_id, and no shape of a
   trips row of the route is carried by more rows. *)
C2_ShapeRefs ==
    \A j \in 1..Len(features) :
        LET r == features[j].id
            props == features[j].properties
        IN /\ props["shape_refs"] = Cardinality(TripsOn(r, props["shape_id"]))
           /\ \A k \in 1..Len(trips_f) :
                trips_f[k].route_id = r =>
                    Cardinality(TripsOn(r, trips_f[k].shape_id)) <= props["shape_refs"]

\* A feature is emitted with shape_refs = 2 for a route one of whose trips
\* uses another shape.
C2_Witness ==
    \E j \in 1..Len(features) :
        /\ features[j].properties["shape_refs"] = 2
        /\ \E k \in 1..Len(trips_f) :
            /\ trips_f[k].route_id = features[j].id
            /\ trips_f[k].shape_id # features[j].properties["shape_id"]

(* C10: the assertion 'popular_shape is not None' never fails: while and after
   the trips rows are counted, every route of the reference-count map has a
   shape counted at least once, and once the shapes are chosen every route of
   a trips row has one. *)
C10_ShapeFound ==
    /\ err # "AssertionError: Couldn't find a shape for route"
    /\ pc = "trips" =>
        \A r \in DOMAIN trips_ref : \E s \in DOMAIN trips_ref[r] : trips_ref[r][s] >= 1
    /\ pc \in {"routes", "done"} =>
        /\ DOMAIN trips = RoutesWithTrips
        /\ \A r \in DOMAIN trips : TripsOn(r, trips[r]) # {}

\* The shapes of two routes have been chosen, one of them among two
\* candidates.
C10_Witness ==
    /\ pc = "routes"
    /\ Cardinality(DOMAIN trips) = 2
    /\ \E r \in DOMAIN trips_ref : Cardinality(DOMAIN trips_ref[r]) = 2

\* The first n routes rows whose route has a trips row, and the others.
RowsWithTrips(n) ==
    SelectSeq(SubSeq(routes_f, 1, n), LAMBDA row : row[1] \in RoutesWithTrips)
RowsWithoutTrips(n) ==
    SelectSeq(SubSeq(routes_f, 1, n), LAMBDA row : row[1] \notin RoutesWithTrips)

(* C6: the features emitted are, in routes-table row order, one feature for
   each routes row whose route_id is carried by a trips row; a routes row
   whose route_id no trips row carries gives a warning and no feature, and
   the rows after it are emitted all the same. *)
C6_FeaturePerRouteWithTrips ==
    pc \in {"routes", "done"} =>
        /\ Len(features) = Len(RowsWithTrips(i))
        /\ \A j \in 1..Len(features) :
            /\ features[j].id = RowsWithTrips(i)[j][1]
            /\ features[j].properties["route_id"] = RowsWithTrips(i)[j][1]
            /\ IF RowsWithTrips(i)[j][2] = ""
               THEN "route_short_name" \notin DOMAIN features[j].properties
               ELSE features[j].properties["route_short_name"] = RowsWithTrips(i)[j][2]
        /\ warnings = RowsWithoutTrips(i)
        /\ pc = "done" => i = Len(routes_f)

\* The run is over: a row without trips stood between two rows of different
\* routes with trips, and both were emitted.
C6_Witness ==
    /\ pc = "done"
    /\ Len(routes_f) = 3
    /\ routes_f[2][1] \notin RoutesWithTrips
    /\ Len(features) = 2
    /\ features[1].id # features[2].id
    /\ Len(warnings) = 1

\* The cell of a stops row under the first column carrying a name.
StopCell(row, name) ==
    row[Min({k \in 1..Len(stops_header) : stops_header[k] = name})]

(* C8: gtfs_stops emits, for every stops row in input order, one point
   feature whose coordinates are (stop_lon, stop_lat), whose identifier is the
   stop_id of the row and whose properties are exactly the non-empty columns
   of the row other than stop_lat and stop_lon. *)
C8_StopFeatures ==
    pc \in {"stops", "done"} =>
        /\ Len(features) = i
        /\ pc = "done" => i = Len(stops_f)
        /\ \A k \in 1..Len(features) :
            /\ features[k].geometry =
                    <<DecimalTable[StopCell(stops_f[k], "stop_lon")],
                      DecimalTable[StopCell(stops_f[k], "stop_lat")]>>
            /\ features[k].id = StopCell(stops_f[k], "stop_id")
            /\ DOMAIN features[k].properties =
                    {stops_header[c] : c \in {d \in 1..Len(stops_header) :
                        /\ stops_header[d] \notin {"stop_lat", "stop_lon"}
                        /\ stops_f[k][d] # ""}}
            /\ \A c \in 1..Len(stops_header) :
                stops_header[c] \in DOMAIN features[k].properties =>
                    features[k].properties[stops_header[c]] = stops_f[k][c]

\* The stop S1 at latitude 10.0 and longitude 20.0 named Alpha has been
\* emitted at (20, 10) with its name, and a second row after it.
C8_Witness ==
    /\ pc = "done"
    /\ Len(features) = 2
    /\ features[1].id = "S1"
    /\ features[1].geometry = <<20, 10>>
    /\ "stop_name" \in DOMAIN features[1].properties
    /\ features[1].properties["stop_name"] = "Alpha"
    /\ StopCell(stops_f[1], "stop_lat") = "10.0"
    /\ features[2].properties = EmptyDict

====
